---- MODULE Spec2Model ----
(***************************************************************************)
(* A model of the deps.dev client library "insight": the Client, its      *)
(* endpoint methods, the fetch-and-decode steps and the query-string      *)
(* helper addOptions.                                                      *)
(*                                                                         *)
(* Text is modelled as a sequence of atoms.  An atom is either one         *)
(* character that URL syntax gives a meaning ("/", "?", "#", ":", "%",     *)
(* " ", "=", "&", "+"), one percent-escape triple ("%2F", "%25", ...), or  *)
(* a word of unreserved characters ("x", "systems", "npm").  No word is a  *)
(* concatenation of other atoms in use, so two atom sequences are equal    *)
(* exactly when the texts they stand for are equal.                        *)
(***************************************************************************)
EXTENDS Integers, Sequences, FiniteSets, TLC

(***************************************************************************)
(* Bounds of the model.                                                    *)
(***************************************************************************)
\* longest identifier tuple (total number of atoms over all identifiers)
MaxIdLen == 3
\* longest input string handed to addOptions
MaxUrlLen == 3
\* number of endpoint calls one caller issues
MaxCalls == 2

(***************************************************************************)
(* Sequence helpers (package strings).                                     *)
(***************************************************************************)
SeqsUpTo(S, n) == UNION {[1..k -> S] : k \in 0..n}

Contains(s, c) == \E i \in 1..Len(s) : s[i] = c

Count(s, c) == Cardinality({i \in 1..Len(s) : s[i] = c})

\* strings.Index: position of the first c in s, 0 when there is none
IndexOf(s, c) ==
  IF Contains(s, c) THEN CHOOSE i \in 1..Len(s) : s[i] = c /\ \A j \in 1..(i-1) : s[j] # c
  ELSE 0

\* strings.LastIndex
LastIndexOf(s, c) ==
  IF Contains(s, c) THEN CHOOSE i \in 1..Len(s) : s[i] = c /\ \A j \in (i+1)..Len(s) : s[j] # c
  ELSE 0

HasPrefix(s, p) == Len(s) >= Len(p) /\ SubSeq(s, 1, Len(p)) = p

HasSuffix(s, p) == Len(s) >= Len(p) /\ SubSeq(s, Len(s) - Len(p) + 1, Len(s)) = p

\* strings.Cut
Cut(s, c) ==
  LET i == IndexOf(s, c) IN
  IF i = 0 THEN [before |-> s, after |-> <<>>, found |-> FALSE]
  ELSE [before |-> SubSeq(s, 1, i - 1), after |-> SubSeq(s, i + 1, Len(s)), found |-> TRUE]

\* the pieces of s between the separators c (strings.Split)
RECURSIVE Split(_, _)
Split(s, c) ==
  LET r == Cut(s, c) IN
  IF r.found THEN <<r.before>> \o Split(r.after, c) ELSE <<s>>

(***************************************************************************)
(* net/url: escaping.                                                      *)
(***************************************************************************)
\* RFC 3986 reserved characters of the model's alphabet
Reserved == {"/", ":", "=", "?", "&", "+"}

\* characters that are neither unreserved nor reserved
Unsafe == {" ", "%", "#"}

\* the percent-escape of each character that can be escaped
Triple ==
  [c \in Reserved \union Unsafe |->
     CASE c = "/" -> "%2F" [] c = ":" -> "%3A" [] c = "=" -> "%3D"
       [] c = "?" -> "%3F" [] c = "&" -> "%26" [] c = "+" -> "%2B"
       [] c = " " -> "%20" [] c = "%" -> "%25" [] c = "#" -> "%23"]

Triples == {Triple[c] : c \in DOMAIN Triple}

\* the character a percent-escape triple stands for
UnTriple(t) == CHOOSE c \in DOMAIN Triple : Triple[c] = t

\* the two hexadecimal digits of a triple, as a word
HexWord ==
  [c \in Reserved \union Unsafe |->
     CASE c = "/" -> "2F" [] c = ":" -> "3A" [] c = "=" -> "3D"
       [] c = "?" -> "3F" [] c = "&" -> "26" [] c = "+" -> "2B"
       [] c = " " -> "20" [] c = "%" -> "25" [] c = "#" -> "23"]


\* shouldEscape(c, mode) for the modes the client reaches
shouldEscape(c, mode) ==
  IF c \in Reserved THEN
    CASE mode = "encodePath" -> c = "?"
      [] mode = "encodePathSegment" -> c \in {"/", "?"}
      [] mode = "encodeQueryComponent" -> TRUE
      [] mode = "encodeFragment" -> FALSE
      [] mode = "encodeHost" -> c \in {"/", "?"}
  ELSE c \in Unsafe

\* escape(s, mode): a space becomes "+" in a query component
RECURSIVE escape(_, _)
escape(s, mode) ==
  IF s = <<>> THEN <<>>
  ELSE LET c == Head(s)
           e == IF c \in Triples THEN <<Triple["%"], HexWord[UnTriple(c)]>>
                ELSE IF ~shouldEscape(c, mode) THEN <<c>>
                ELSE IF c = " " /\ mode = "encodeQueryComponent" THEN <<"+">>
                ELSE <<Triple[c]>>
       IN e \o escape(Tail(s), mode)

\* escaping as for a whole path, which leaves "/" alone
PathEscapeWholePath(s) == escape(s, "encodePath")

\* url.PathEscape
PathEscape(s) == escape(s, "encodePathSegment")

\* url.QueryEscape
QueryEscape(s) == escape(s, "encodeQueryComponent")

\* unescape(s, mode) succeeds: every "%" starts a triple (and a host takes none)
unescapeOK(s, mode) ==
  /\ ~Contains(s, "%")
  /\ mode = "encodeHost" => \A i \in 1..Len(s) : s[i] \notin Triples \/ s[i] = Triple["%"]
  /\ mode = "encodeHost" => \A i \in 1..Len(s) : s[i] \notin {" ", "#", "/", "?"}

\* unescape(s, mode): the triples decoded
RECURSIVE unescape(_, _)
unescape(s, mode) ==
  IF s = <<>> THEN <<>>
  ELSE LET c == Head(s)
           d == IF c \in Triples THEN UnTriple(c)
                ELSE IF c = "+" /\ mode = "encodeQueryComponent" THEN " "
                ELSE c
       IN <<d>> \o unescape(Tail(s), mode)

\* validEncoded(s, mode)
validEncoded(s, mode) ==
  \A i \in 1..Len(s) :
     \/ s[i] \in {"&", "+", "=", ":", "%"}
     \/ s[i] \in Triples
     \/ ~shouldEscape(s[i], mode)

(***************************************************************************)
(* net/url: Parse and String, as addOptions and http.NewRequest use them.  *)
(***************************************************************************)
\* words that begin with a digit, and those made of digits only
DigitWords == {"18.2.0", "8080", "2F", "3A", "3D", "3F", "26", "2B", "20", "25", "23"}
PortWords == {"8080", "26", "20", "25", "23"}

\* RFC 3986 unreserved characters: the words
IsUnreserved(c) == c \notin Reserved \union Unsafe \union Triples

IsLetterWord(c) == IsUnreserved(c) /\ c \notin DigitWords

\* strings.ToLower on the atoms of a scheme
ToLower(s) == [i \in 1..Len(s) |-> IF s[i] = "X" THEN "x" ELSE s[i]]

\* getScheme's scan: the index of the ":" ending a scheme, 0 without a scheme,
\* -1 for "missing protocol scheme"
RECURSIVE SchemeScan(_, _)
SchemeScan(s, i) ==
  IF i > Len(s) THEN 0
  ELSE IF IsLetterWord(s[i]) THEN SchemeScan(s, i + 1)
  ELSE IF s[i] \in DigitWords \union {"+"} THEN (IF i = 1 THEN 0 ELSE SchemeScan(s, i + 1))
  ELSE IF s[i] = ":" THEN (IF i = 1 THEN -1 ELSE i)
  ELSE 0

getScheme(raw) ==
  LET k == SchemeScan(raw, 1) IN
  IF k = -1 THEN [ok |-> FALSE, scheme |-> <<>>, rest |-> <<>>]
  ELSE IF k = 0 THEN [ok |-> TRUE, scheme |-> <<>>, rest |-> raw]
  ELSE [ok |-> TRUE, scheme |-> SubSeq(raw, 1, k - 1), rest |-> SubSeq(raw, k + 1, Len(raw))]

\* validOptionalPort on what follows the last ":" of a host
validOptionalPort(port) == \A i \in 1..Len(port) : port[i] \in PortWords

\* parseHost succeeds
hostOK(host) ==
  /\ Contains(host, ":") => validOptionalPort(SubSeq(host, LastIndexOf(host, ":") + 1, Len(host)))
  /\ unescapeOK(host, "encodeHost")

\* URL.setPath
setPath(u, p) ==
  LET path == unescape(p, "encodePath") IN
  [u EXCEPT !.Path = path,
            !.RawPath = IF p = escape(path, "encodePath") THEN <<>> ELSE p]

\* URL.setFragment
setFragment(u, f) ==
  LET frag == unescape(f, "encodeFragment") IN
  [u EXCEPT !.Fragment = frag,
            !.RawFragment = IF f = escape(frag, "encodeFragment") THEN <<>> ELSE f]

NoURL ==
  [ok |-> FALSE, Scheme |-> <<>>, Opaque |-> <<>>, Host |-> <<>>, OmitHost |-> FALSE,
   Path |-> <<>>, RawPath |-> <<>>, ForceQuery |-> FALSE, RawQuery |-> <<>>,
   Fragment |-> <<>>, RawFragment |-> <<>>]

\* parse: the query is split off; a lone trailing "?" sets ForceQuery
splitQuery(rest) ==
  IF HasSuffix(rest, <<"?">>) /\ Count(rest, "?") = 1
  THEN [rest |-> SubSeq(rest, 1, Len(rest) - 1), RawQuery |-> <<>>, ForceQuery |-> TRUE]
  ELSE [rest |-> Cut(rest, "?").before, RawQuery |-> Cut(rest, "?").after, ForceQuery |-> FALSE]

\* parse: the authority "//host" and the path that follows it
parseAuthority(u, rest) ==
  LET a == Cut(SubSeq(rest, 3, Len(rest)), "/")
      p == IF a.found THEN <<"/">> \o a.after ELSE <<>>
  IN IF ~hostOK(a.before) \/ ~unescapeOK(p, "encodePath") THEN NoURL
     ELSE setPath([u EXCEPT !.Host = unescape(a.before, "encodeHost")], p)

\* parse: what follows the scheme and precedes the query
parseHier(u, rest) ==
  IF ~HasPrefix(rest, <<"/">>) /\ u.Scheme # <<>> THEN [u EXCEPT !.Opaque = rest]
  ELSE IF ~HasPrefix(rest, <<"/">>) /\ Contains(Cut(rest, "/").before, ":") THEN NoURL
  ELSE IF HasPrefix(rest, <<"/", "/">>) /\ (u.Scheme # <<>> \/ ~HasPrefix(rest, <<"/", "/", "/">>))
    THEN parseAuthority(u, rest)
  ELSE IF ~unescapeOK(rest, "encodePath") THEN NoURL
  ELSE setPath([u EXCEPT !.OmitHost = (u.Scheme # <<>> /\ HasPrefix(rest, <<"/">>))], rest)

\* the one element of a singleton set; a value is computed once by binding
\* it as the element of a singleton
Only(S) == CHOOSE x \in S : TRUE

\* parse(rawURL, viaRequest = false)
parse(raw) ==
  Only({ IF ~g.ok THEN NoURL
         ELSE Only({ parseHier([NoURL EXCEPT !.ok = TRUE, !.Scheme = ToLower(g.scheme),
                                             !.ForceQuery = q.ForceQuery, !.RawQuery = q.RawQuery],
                               q.rest)
                     : q \in {splitQuery(g.rest)} })
         : g \in {getScheme(raw)} })

\* url.Parse
Parse(rawURL) ==
  Only({ Only({ IF ~u.ok THEN NoURL
                ELSE IF c.after = <<>> THEN u
                ELSE IF ~unescapeOK(c.after, "encodeFragment") THEN NoURL
                ELSE setFragment(u, c.after)
                : u \in {parse(c.before)} })
         : c \in {Cut(rawURL, "#")} })

\* URL.EscapedPath
EscapedPath(u) ==
  IF u.RawPath # <<>> /\ validEncoded(u.RawPath, "encodePath") THEN u.RawPath
  ELSE escape(u.Path, "encodePath")

\* URL.EscapedFragment
EscapedFragment(u) ==
  IF u.RawFragment # <<>> /\ validEncoded(u.RawFragment, "encodeFragment") THEN u.RawFragment
  ELSE escape(u.Fragment, "encodeFragment")

\* URL.String: scheme, "//" and host, the escaped path, query and fragment
StringOf(u, path) ==
  LET scheme == IF u.Scheme # <<>> THEN u.Scheme \o <<":">> ELSE <<>>
      slashes == IF (u.Scheme # <<>> \/ u.Host # <<>>) /\ ~(u.OmitHost /\ u.Host = <<>>)
                    /\ (u.Host # <<>> \/ u.Path # <<>>)
                 THEN <<"/", "/">> ELSE <<>>
      host == escape(u.Host, "encodeHost")
      lead == IF path # <<>> /\ path[1] # "/" /\ u.Host # <<>> THEN <<"/">> ELSE <<>>
      dot == IF scheme \o slashes \o host \o lead = <<>> /\ Contains(Cut(path, "/").before, ":")
             THEN <<".", "/">> ELSE <<>>
      hier == IF u.Opaque # <<>> THEN u.Opaque ELSE slashes \o host \o lead \o dot \o path
      query == IF u.ForceQuery \/ u.RawQuery # <<>> THEN <<"?">> \o u.RawQuery ELSE <<>>
      frag == IF u.Fragment # <<>> THEN <<"#">> \o EscapedFragment(u) ELSE <<>>
  IN scheme \o hier \o query \o frag

String(u) == Only({ Only({ StringOf(v, p) : p \in {EscapedPath(v)} }) : v \in {u} })

(***************************************************************************)
(* fmt.Sprintf with %s verbs, and the format strings of the endpoint       *)
(* methods.                                                                *)
(***************************************************************************)
\* fmt.Sprintf(format, a...): each "%s" takes the next argument
RECURSIVE Sprintf(_, _)
Sprintf(format, a) ==
  IF format = <<>> THEN <<>>
  ELSE IF Head(format) = "%s" THEN Head(a) \o Sprintf(Tail(format), Tail(a))
  ELSE <<Head(format)>> \o Sprintf(Tail(format), a)

\* the endpoint methods that take identifiers and call get
GetMethods ==
  {"GetPackage", "GetVersion", "GetDependencies", "GetRequirements",
   "GetProject", "GetProjectPackageVersions", "GetAdvisory"}

\* the first argument of fmt.Sprintf in each endpoint method
Format(m) ==
  CASE m = "GetPackage" -> <<"systems", "/", "%s", "/", "packages", "/", "%s">>
    [] m = "GetVersion" ->
         <<"systems", "/", "%s", "/", "packages", "/", "%s", "/", "versions", "/", "%s">>
    [] m = "GetDependencies" ->
         <<"systems", "/", "%s", "/", "packages", "/", "%s", "/", "versions", "/", "%s",
           ":", "dependencies">>
    [] m = "GetRequirements" ->
         <<"/", "systems", "/", "%s", "/", "packages", "/", "%s", "/", "versions", "/", "%s",
           ":", "requirements">>
    [] m = "GetProject" -> <<"projects", "/", "%s">>
    [] m = "GetProjectPackageVersions" -> <<"/", "projects", "/", "%s", ":", "packageversions">>
    [] m = "GetAdvisory" -> <<"/", "advisories", "/", "%s">>

\* the number of identifiers a method takes
Arity(m) ==
  CASE m \in {"GetPackage", "GetPackageV0"} -> 2
    [] m \in {"GetVersion", "GetDependencies", "GetRequirements"} -> 3
    [] m \in {"GetProject", "GetProjectPackageVersions", "GetAdvisory"} -> 1
    [] OTHER -> 0

\* the escaped identifiers, in argument order
EscapeAll(a) == [i \in 1..Len(a) |-> PathEscape(a[i])]

\* path := fmt.Sprintf(format, url.PathEscape(...), ...)
BuildPath(m, a) == Sprintf(Format(m), EscapeAll(a))

(***************************************************************************)
(* Options structs and addOptions.                                         *)
(***************************************************************************)
\* the fields of each options struct in declaration order, with their url tags
Fields(type) ==
  CASE type = "Options" ->
         <<[key |-> "hash", omitempty |-> TRUE],
           [key |-> "system", omitempty |-> TRUE],
           [key |-> "version", omitempty |-> TRUE]>>
    [] type = "QueryOptions" ->
         <<[key |-> "hash.type", omitempty |-> TRUE],
           [key |-> "hash.value", omitempty |-> TRUE],
           [key |-> "versionKey.system", omitempty |-> TRUE],
           [key |-> "versionKey.name", omitempty |-> TRUE],
           [key |-> "versionKey.version", omitempty |-> TRUE]>>
    [] OTHER -> <<>>

\* the keys in the order sort.Strings gives them
KeyOrder ==
  <<"hash", "hash.type", "hash.value", "system", "version",
    "versionKey.name", "versionKey.system", "versionKey.version">>

KeyRank(k) == CHOOSE i \in 1..Len(KeyOrder) : KeyOrder[i] = k

\* an options argument: a pointer to a struct, a nil pointer, or a value that
\* is no struct
NilOptions == [kind |-> "nil", type |-> "none", vals |-> <<>>]
NotAStruct == [kind |-> "string", type |-> "none", vals |-> <<>>]
StructOptions(type, vals) == [kind |-> "struct", type |-> type, vals |-> vals]

\* query.Values fails: the argument is neither a struct nor a pointer to one
ValuesFails(opts) == opts.kind \notin {"struct", "nil"}

\* every field kept, the omitempty option ignored
ValuesKeepEmpty(opts) ==
  {[key |-> Fields(opts.type)[i].key, val |-> opts.vals[i]] : i \in 1..Len(opts.vals)}

\* query.Values(opts): the key/value pairs of the fields that are kept; a field
\* tagged omitempty is dropped when it holds the empty string
Values(opts) ==
  LET fs == Fields(opts.type) IN
  {[key |-> fs[i].key, val |-> opts.vals[i]] :
     i \in {j \in 1..Len(opts.vals) : ~(fs[j].omitempty /\ opts.vals[j] = <<>>)}}

\* the pairs written without sorting the keys first
RECURSIVE EncodeUnsorted(_)
EncodeUnsorted(qs) ==
  IF qs = {} THEN <<>>
  ELSE LET first == CHOOSE p \in qs : \A q \in qs : KeyRank(p.key) >= KeyRank(q.key)
           rest == qs \ {first}
       IN QueryEscape(<<first.key>>) \o <<"=">> \o QueryEscape(first.val)
            \o (IF rest = {} THEN <<>> ELSE <<"&">> \o EncodeUnsorted(rest))

\* url.Values.Encode: "key=value" pairs, both query-escaped, sorted by key and
\* joined by "&"
RECURSIVE Encode(_)
Encode(qs) ==
  IF qs = {} THEN <<>>
  ELSE LET first == CHOOSE p \in qs : \A q \in qs : KeyRank(p.key) <= KeyRank(q.key)
           rest == qs \ {first}
       IN QueryEscape(<<first.key>>) \o <<"=">> \o QueryEscape(first.val)
            \o (IF rest = {} THEN <<>> ELSE <<"&">> \o Encode(rest))

\* the parameters appended to the input string as it was given
addOptionsNoParse(s, opts) ==
  [s |-> s \o <<"?">> \o Encode(Values(opts)), err |-> "nil"]

\* the empty string returned along with the error
addOptionsEmptyOnError(s, opts) ==
  Only({ IF ~u.ok THEN [s |-> <<>>, err |-> "parse"]
         ELSE IF ValuesFails(opts) THEN [s |-> <<>>, err |-> "values"]
         ELSE [s |-> String([u EXCEPT !.RawQuery = Encode(Values(opts))]), err |-> "nil"]
         : u \in {Parse(s)} })

\* the parameters added to the query the input already has
addOptionsMerge(s, opts) ==
  Only({ IF ~u.ok THEN [s |-> s, err |-> "parse"]
         ELSE IF ValuesFails(opts) THEN [s |-> s, err |-> "values"]
         ELSE Only({ [s |-> String([u EXCEPT !.RawQuery =
                                      IF u.RawQuery = <<>> THEN e
                                      ELSE IF e = <<>> THEN u.RawQuery
                                      ELSE u.RawQuery \o <<"&">> \o e]),
                      err |-> "nil"]
                     : e \in {Encode(Values(opts))} })
         : u \in {Parse(s)} })

\* addOptions(s, opts) (string, error)
addOptions(s, opts) ==
  Only({ IF ~u.ok THEN [s |-> s, err |-> "parse"]
         ELSE IF ValuesFails(opts) THEN [s |-> s, err |-> "values"]
         ELSE [s |-> String([u EXCEPT !.RawQuery = Encode(Values(opts))]), err |-> "nil"]
         : u \in {Parse(s)} })

(***************************************************************************)
(* The Client and the state of one endpoint call.                          *)
(***************************************************************************)
VARIABLES
  client,   \* the Client: BasePath and the transport
  ncalls,   \* endpoint calls started so far
  pc,       \* where the current call stands
  method,   \* the endpoint method called
  args,     \* its identifier arguments
  qopts,    \* the options argument of Query
  path,     \* the relative path handed to get
  url,      \* the URL string handed to http.NewRequest
  accept,   \* whether the Accept header is set on the request
  req,      \* the request built by http.NewRequest
  wire,     \* the requests handed to the transport by this call, in order
  resp,     \* the response the transport returned
  closed,   \* how many times resp.Body was closed
  out,      \* the struct the body is decoded into
  ferr,     \* the error of the fetch steps
  result,   \* the pointer the method returns
  err,      \* the error the method returns
  ain,      \* arguments of a direct addOptions call
  aout,     \* what that call returned
  given,    \* the arguments NewClient was called with
  ctx,      \* the context the caller passed to the current call
  rctx,     \* the context the request is built with
  calls     \* the locals of the calls of concurrent callers

vars ==
  <<client, ncalls, pc, method, args, qopts, path, url, accept, req, wire, resp,
    closed, out, ferr, result, err, ain, aout, given, ctx, rctx, calls>>

callVars ==
  <<method, args, qopts, path, url, accept, req, wire, resp, closed, out, ferr, result, err,
    ctx, rctx>>

\* const basePath
basePath == <<"https", ":", "/", "/", "api.deps.dev", "/", "v3">>

\* the arguments stored as they are, nothing defaulted
NewClientNoDefaults(endpoint, c) == [BasePath |-> endpoint, client |-> c]

\* NewClient(endpoint, c)
NewClient(endpoint, c) ==
  [BasePath |-> IF endpoint = <<>> THEN basePath ELSE endpoint,
   client |-> IF c = "nil" THEN "http.DefaultClient" ELSE c]

\* http.StatusOK
StatusOK == 200

NoErr == [kind |-> "nil", msg |-> <<>>]
NoReq == [method |-> "none", url |-> <<>>, header |-> {}, ctx |-> "none"]
NoResp == [StatusCode |-> 0, Body |-> "none", readFails |-> FALSE]
NoOut == [set |-> FALSE, val |-> "none"]
NilResult == [isNil |-> TRUE, val |-> "none"]
NoAddOptions == [s |-> <<>>, err |-> "none"]
NoArgs == [s |-> <<>>, opts |-> NilOptions]

\* resp.Status: the status line text, "404 Not Found"
Status(code) == <<ToString(code), " ", "reason">>

\* json.NewDecoder(resp.Body).Decode(p): reads the first JSON value of the
\* body and succeeds when that value can be read and has the expected types;
\* what follows the value in the body is not looked at
DecodeOK(r) == r.Body \in {"json", "json+text"} /\ ~r.readFails

\* the decoded value: the first JSON value of the body
Decoded(body) == IF body = "json+text" THEN "json" ELSE body

\* the error of Decode: the read error, io.EOF on an empty body, a
\* *json.SyntaxError on text, a *json.UnmarshalTypeError on a wrong type
DecodeError(r) ==
  [kind |-> "decode",
   msg |-> IF r.readFails THEN <<"read error">>
           ELSE IF r.Body = "empty" THEN <<"EOF">>
           ELSE IF r.Body = "text" THEN <<"invalid character">>
           ELSE <<"json: cannot unmarshal">>]

(***************************************************************************)
(* The environment: the arguments callers pass and the answers of the      *)
(* transport.                                                              *)
(***************************************************************************)
Endpoints ==
  {<<>>,
   <<"http", ":", "/", "/", "localhost", ":", "8080">>,
   <<"http", ":", "/", "/", "local", " ", "host">>}

Transports == {"nil", "custom"}

CallIdents == {<<"x">>, <<"rsc.io", "/", "github">>}

\* the hash of TestAddOptions
HashValue == <<"ulXBPXrC", "/", "UTfnMgHRFVxmjPzdbk", "=">>

CallOptions ==
  {NilOptions,
   StructOptions("QueryOptions", <<<<>>, <<>>, <<>>, <<>>, <<>>>>),
   StructOptions("QueryOptions", <<<<>>, <<>>, <<"npm">>, <<"react">>, <<"18.2.0">>>>),
   StructOptions("QueryOptions", <<<<"SHA1">>, HashValue, <<>>, <<>>, <<>>>>)}

Statuses == {200, 201, 301, 404, 500}

\* a JSON value of the expected shape, a JSON value of another type (an array
\* for an object, a string for a number), plain text, nothing, and a JSON
\* value of the expected shape followed by plain text
Bodies == {"json", "wrongshape", "text", "empty", "json+text"}

Responses == [StatusCode : Statuses, Body : Bodies, readFails : BOOLEAN]

Methods == GetMethods \union {"GetPackageV0", "Query"}

\* the context a caller passes: one that can still be cancelled, or one that
\* is cancelled already
Contexts == {"live", "canceled"}

\* what a transport that got no response reports
TransportErrors == {"connection refused", "no such host", "i/o timeout"}

\* context.Canceled
Canceled == "context canceled"

(***************************************************************************)
(* The caller starts an endpoint call.                                     *)
(***************************************************************************)
Invoke ==
  /\ pc \in {"idle", "returned"}
  /\ ncalls < MaxCalls
  /\ \E m \in Methods :
       /\ method' = m
       /\ \E a \in [1..Arity(m) -> CallIdents] : args' = a
       /\ IF m = "Query" THEN \E o \in CallOptions : qopts' = o ELSE qopts' = NilOptions
       /\ IF m = "GetPackageV0" THEN ctx' = "background" ELSE \E x \in Contexts : ctx' = x
  /\ rctx' = "none"
  /\ ncalls' = ncalls + 1
  /\ pc' = "called"
  /\ path' = <<>> /\ url' = <<>> /\ accept' = FALSE /\ req' = NoReq /\ wire' = <<>>
  /\ resp' = NoResp /\ closed' = 0 /\ out' = NoOut /\ ferr' = NoErr
  /\ result' = NilResult /\ err' = NoErr
  /\ UNCHANGED <<client, ain, aout, given, calls>>

(***************************************************************************)
(* The endpoint methods: each builds its path and calls get.               *)
(***************************************************************************)
\* the method checking its identifiers first and returning an error of its own
\* for an empty one, without building a path
PathStepValidating(m) ==
  /\ pc = "called"
  /\ method = m
  /\ IF \E i \in 1..Len(args) : args[i] = <<>>
     THEN /\ result' = NilResult
          /\ err' = [kind |-> "argument", msg |-> <<"empty identifier">>]
          /\ pc' = "returned"
          /\ path' = path
     ELSE /\ path' = BuildPath(m, args)
          /\ pc' = "get"
          /\ UNCHANGED <<result, err>>
  /\ UNCHANGED <<client, ncalls, method, args, qopts, url, accept, req, wire, resp,
                 closed, out, ferr, ain, aout, given, ctx, rctx, calls>>

\* the first statement of an endpoint method of api.go
PathStep(m) ==
  /\ pc = "called"
  /\ method = m
  /\ path' = BuildPath(m, args)
  /\ pc' = "get"
  /\ UNCHANGED <<client, ncalls, method, args, qopts, url, accept, req, wire, resp,
                 closed, out, ferr, result, err, ain, aout, given, ctx, rctx, calls>>

GetPackage == PathStep("GetPackage")

GetVersion == PathStep("GetVersion")

GetDependencies == PathStep("GetDependencies")

GetRequirements == PathStep("GetRequirements")

GetProject == PathStep("GetProject")

GetProjectPackageVersions == PathStep("GetProjectPackageVersions")

GetAdvisory == PathStep("GetAdvisory")

\* the filters written as path segments after "query"
RECURSIVE SegmentsOf(_)
SegmentsOf(vals) ==
  IF vals = <<>> THEN <<>>
  ELSE (IF Head(vals) = <<>> THEN <<>> ELSE <<"/">> \o PathEscape(Head(vals)))
         \o SegmentsOf(Tail(vals))

QueryInPath ==
  /\ pc = "called"
  /\ method = "Query"
  /\ path' = <<"query">> \o SegmentsOf(qopts.vals)
  /\ pc' = "get"
  /\ UNCHANGED <<client, ncalls, method, args, qopts, url, accept, req, wire, resp,
                 closed, out, ferr, result, err, ain, aout, given, ctx, rctx, calls>>

\* Query: the path is "query" plus the options; a failure of addOptions is
\* returned at once
Query ==
  /\ pc = "called"
  /\ method = "Query"
  /\ \E r \in {addOptions(<<"query">>, qopts)} :
       IF r.err # "nil"
       THEN /\ result' = NilResult
            /\ err' = [kind |-> "addOptions", msg |-> <<r.err>>]
            /\ pc' = "returned"
            /\ path' = path
       ELSE /\ path' = r.s
            /\ pc' = "get"
            /\ UNCHANGED <<result, err>>
  /\ UNCHANGED <<client, ncalls, method, args, qopts, url, accept, req, wire, resp,
                 closed, out, ferr, ain, aout, given, ctx, rctx, calls>>

\* GetPackage of the client that fetches inline: the URL is the base path
\* followed by the escaped identifiers
GetPackageURL(base, a) ==
  base \o <<"/", "systems", "/">> \o PathEscape(a[1]) \o <<"/", "packages", "/">> \o PathEscape(a[2])

\* the URL written back into the Client's base path, as c.BasePath += ... would
GetPackageV0Rebase ==
  /\ pc = "called"
  /\ method = "GetPackageV0"
  /\ url' = GetPackageURL(client.BasePath, args)
  /\ client' = [client EXCEPT !.BasePath = url']
  /\ accept' = FALSE
  /\ rctx' = "background"
  /\ pc' = "newreq"
  /\ UNCHANGED <<ncalls, method, args, qopts, path, req, wire, resp,
                 closed, out, ferr, result, err, ain, aout, given, ctx, calls>>

GetPackageV0 ==
  /\ pc = "called"
  /\ method = "GetPackageV0"
  /\ url' = GetPackageURL(client.BasePath, args)
  /\ accept' = FALSE
  /\ rctx' = "background"
  /\ pc' = "newreq"
  /\ UNCHANGED <<client, ncalls, method, args, qopts, path, req, wire, resp,
                 closed, out, ferr, result, err, ain, aout, given, ctx, calls>>

\* the request built on the background context, the caller's context dropped
getContextBackground == "background"

\* the context get builds the request with: the one the caller passed
getContext == "caller"

\* get(ctx, path, v): the request goes to <base>/<relative path>, asks for JSON
\* and carries the caller's context
get ==
  /\ pc = "get"
  /\ url' = client.BasePath \o <<"/">> \o path
  /\ accept' = TRUE
  /\ rctx' = getContext
  /\ pc' = "newreq"
  /\ UNCHANGED <<client, ncalls, method, args, qopts, path, req, wire, resp,
                 closed, out, ferr, result, err, ain, aout, given, ctx, calls>>

(***************************************************************************)
(* The fetch steps.                                                        *)
(***************************************************************************)
\* the request built from the URL string as it is, without parsing it
NewRequestUnchecked ==
  /\ pc = "newreq"
  /\ req' = [method |-> "GET", url |-> url,
             header |-> IF accept THEN {"Accept: application/json; charset=utf-8"} ELSE {},
             ctx |-> rctx]
  /\ pc' = "do"
  /\ UNCHANGED <<client, ncalls, method, args, qopts, path, url, accept, wire, resp,
                 closed, out, ferr, result, err, ain, aout, given, ctx, rctx, calls>>

\* req, err := http.NewRequest("GET", url, nil); if err != nil { return nil, err }
NewRequest ==
  /\ pc = "newreq"
  /\ \E u \in {Parse(url)} :
       IF u.ok
       THEN /\ req' = [method |-> "GET", url |-> String(u),
                       header |-> IF accept THEN {"Accept: application/json; charset=utf-8"} ELSE {},
                       ctx |-> rctx]
            /\ pc' = "do"
            /\ ferr' = ferr
       ELSE /\ ferr' = [kind |-> "NewRequest", msg |-> <<"parse">>]
            /\ pc' = "fetched"
            /\ req' = req
  /\ UNCHANGED <<client, ncalls, method, args, qopts, path, url, accept, wire, resp,
                 closed, out, result, err, ain, aout, given, ctx, rctx, calls>>

\* a second attempt after a server error
AttemptsRetryOnError(r) == IF r.StatusCode >= 500 THEN 2 ELSE 1

\* how many times the request is handed to the transport
Attempts(r) == 1

\* the request's context is done
Done(r) == r.ctx = "caller" /\ ctx = "canceled"

\* the caller cancels the context while the call is under way
Cancel ==
  /\ pc \notin {"idle", "returned"}
  /\ ctx = "live"
  /\ ctx' = "canceled"
  /\ UNCHANGED <<client, ncalls, pc, method, args, qopts, path, url, accept, req, wire, resp,
                 closed, out, ferr, result, err, ain, aout, given, rctx, calls>>

\* resp, err := c.client.Do(req) fails: if err != nil { return nil, err }
DoFails ==
  /\ pc = "do"
  /\ ~Done(req)
  /\ wire' = Append(wire, req)
  /\ \E e \in TransportErrors : ferr' = [kind |-> "transport", msg |-> <<e>>]
  /\ pc' = "fetched"
  /\ UNCHANGED <<client, ncalls, method, args, qopts, path, url, accept, req, resp,
                 closed, out, result, err, ain, aout, given, ctx, rctx, calls>>

\* resp, err := c.client.Do(req) gives up because the request's context is
\* done: if err != nil { return nil, err }
DoCanceled ==
  /\ pc = "do"
  /\ Done(req)
  /\ wire' = Append(wire, req)
  /\ ferr' = [kind |-> "transport", msg |-> <<Canceled>>]
  /\ pc' = "fetched"
  /\ UNCHANGED <<client, ncalls, method, args, qopts, path, url, accept, req, resp,
                 closed, out, result, err, ain, aout, given, ctx, rctx, calls>>

\* resp, err := c.client.Do(req) answers
Do ==
  /\ pc = "do"
  /\ ~Done(req)
  /\ \E r \in Responses :
       /\ resp' = r
       /\ wire' = wire \o [i \in 1..Attempts(r) |-> req]
  /\ pc' = "resp"
  /\ UNCHANGED <<client, ncalls, method, args, qopts, path, url, accept, req,
                 closed, out, ferr, result, err, ain, aout, given, ctx, rctx, calls>>

\* every 2xx status taken for a success
IsSuccessAny2xx(r) == r.StatusCode >= 200 /\ r.StatusCode < 300

\* the response counts as a success
IsSuccess(r) == r.StatusCode = StatusOK

\* the status line used whether or not the body can be read
StatusErrorStatusLine(r) == [kind |-> "status", msg |-> Status(r.StatusCode)]

\* the status code put in front of the body text
StatusErrorWithCode(r) ==
  IF r.readFails THEN [kind |-> "status", msg |-> Status(r.StatusCode)]
  ELSE [kind |-> "status", msg |-> <<ToString(r.StatusCode), ":", " ", r.Body>>]

\* the error made from a response that is no success: the body text, or the
\* status line when the body cannot be read
StatusError(r) ==
  IF r.readFails THEN [kind |-> "status", msg |-> Status(r.StatusCode)]
  ELSE [kind |-> "status", msg |-> <<r.Body>>]

\* the body closed only on the way out of a successful decode, the error
\* returns leaving it open
closeOnSuccessOnly(n, r) == IF r.StatusCode = StatusOK /\ DecodeOK(r) THEN n + 1 ELSE n

\* defer resp.Body.Close(): registered once the response is there, it runs
\* once when the function returns, by whichever return statement
deferClose(n, r) == n + 1

\* if resp.StatusCode != http.StatusOK { ... return nil, fmt.Errorf(...) },
\* with the deferred resp.Body.Close()
CheckStatus ==
  /\ pc = "resp"
  /\ ~IsSuccess(resp)
  /\ ferr' = StatusError(resp)
  /\ closed' = deferClose(closed, resp)
  /\ pc' = "fetched"
  /\ UNCHANGED <<client, ncalls, method, args, qopts, path, url, accept, req, wire, resp,
                 out, result, err, ain, aout, given, ctx, rctx, calls>>

\* p := new(Package); if err := json.NewDecoder(resp.Body).Decode(p); err != nil
\* { return nil, err }, with the deferred resp.Body.Close()
Decode ==
  /\ pc = "resp"
  /\ IsSuccess(resp)
  /\ IF DecodeOK(resp)
     THEN out' = [set |-> TRUE, val |-> Decoded(resp.Body)] /\ ferr' = ferr
     ELSE out' = out /\ ferr' = DecodeError(resp)
  /\ closed' = deferClose(closed, resp)
  /\ pc' = "fetched"
  /\ UNCHANGED <<client, ncalls, method, args, qopts, path, url, accept, req, wire, resp,
                 result, err, ain, aout, given, ctx, rctx, calls>>

\* every error of the fetch reported as a new error of the status kind
ReturnedRewrapped(e, o) ==
  IF e.kind # "nil" THEN [result |-> NilResult, err |-> [kind |-> "status", msg |-> e.msg]]
  ELSE [result |-> [isNil |-> FALSE, val |-> o.val], err |-> NoErr]

\* the struct returned along with the error
ReturnedBoth(e, o) == [result |-> [isNil |-> FALSE, val |-> o.val], err |-> e]

\* what the method returns for the outcome of the fetch:
\* if err != nil { return nil, err }; return p, nil
Returned(e, o) ==
  IF e.kind # "nil" THEN [result |-> NilResult, err |-> e]
  ELSE [result |-> [isNil |-> FALSE, val |-> o.val], err |-> NoErr]

Return ==
  /\ pc = "fetched"
  /\ result' = Returned(ferr, out).result
  /\ err' = Returned(ferr, out).err
  /\ pc' = "returned"
  /\ UNCHANGED <<client, ncalls, method, args, qopts, path, url, accept, req, wire, resp,
                 closed, out, ferr, ain, aout, given, ctx, rctx, calls>>

(***************************************************************************)
(* The specification of the client: it is constructed, then callers call   *)
(* its endpoint methods one after the other.                               *)
(***************************************************************************)
Init ==
  /\ \E e \in Endpoints, c \in Transports :
       /\ given = [endpoint |-> e, c |-> c]
       /\ client = NewClient(e, c)
  /\ ctx = "background" /\ rctx = "none" /\ calls = <<>>
  /\ ncalls = 0
  /\ pc = "idle"
  /\ method = "none" /\ args = <<>> /\ qopts = NilOptions
  /\ path = <<>> /\ url = <<>> /\ accept = FALSE /\ req = NoReq /\ wire = <<>>
  /\ resp = NoResp /\ closed = 0 /\ out = NoOut /\ ferr = NoErr
  /\ result = NilResult /\ err = NoErr
  /\ ain = NoArgs /\ aout = NoAddOptions

Next ==
  \/ Invoke
  \/ GetPackage \/ GetVersion \/ GetDependencies \/ GetRequirements
  \/ GetProject \/ GetProjectPackageVersions \/ GetAdvisory
  \/ Query
  \/ GetPackageV0
  \/ get
  \/ NewRequest
  \/ Cancel
  \/ DoFails
  \/ DoCanceled
  \/ Do
  \/ CheckStatus
  \/ Decode
  \/ Return

Spec == Init /\ [][Next]_vars

(***************************************************************************)
(* The same client with the progress the runtime gives: a call that has     *)
(* started takes its next step, and a transport whose request's context is  *)
(* done returns.  Nothing makes a server answer or a caller call.  One call  *)
(* is followed from its start to its return.                               *)
(***************************************************************************)
\* the steps of a call other than NewRequest, and the transport's return when
\* the request's context is done
Progress ==
  \/ GetPackage \/ GetVersion \/ GetDependencies \/ GetRequirements
  \/ GetProject \/ GetProjectPackageVersions \/ GetAdvisory
  \/ Query
  \/ GetPackageV0
  \/ get
  \/ DoCanceled
  \/ CheckStatus
  \/ Decode
  \/ Return

\* the first call of a client
InvokeFirst == ncalls = 0 /\ Invoke

NextLive == InvokeFirst \/ Cancel \/ NewRequest \/ DoFails \/ Do \/ Progress

\* NewRequest is enabled exactly when pc = "newreq" and always leaves it, so
\* its weak fairness is that the call is not at "newreq" for ever
SpecLive == Init /\ [][NextLive]_vars /\ WF_vars(Progress) /\ []<>(pc # "newreq")

(***************************************************************************)
(* Path building on its own: every endpoint method that takes identifiers  *)
(* is called once, with identifiers drawn from all short strings over      *)
(* PathChars.                                                              *)
(***************************************************************************)
PathChars == {"x", "/", ":", "%", "dependencies", "requirements", "packageversions"}

\* every way to cut a string of at most len atoms into n identifiers
IdTuplesUpTo(n, len) ==
  LET W == SeqsUpTo(PathChars, len) IN
  CASE n = 1 -> {<<w>> : w \in W}
    [] n = 2 -> UNION {{<<SubSeq(w, 1, i), SubSeq(w, i + 1, Len(w))>> : i \in 0..Len(w)} : w \in W}
    [] n = 3 ->
         UNION {UNION {{<<SubSeq(w, 1, i), SubSeq(w, i + 1, j), SubSeq(w, j + 1, Len(w))>>
                          : j \in i..Len(w)} : i \in 0..Len(w)} : w \in W}

\* every way to cut a string of at most MaxIdLen atoms into n identifiers
IdTuples(n) ==
  LET W == SeqsUpTo(PathChars, MaxIdLen) IN
  CASE n = 1 -> {<<w>> : w \in W}
    [] n = 2 -> UNION {{<<SubSeq(w, 1, i), SubSeq(w, i + 1, Len(w))>> : i \in 0..Len(w)} : w \in W}
    [] n = 3 ->
         UNION {UNION {{<<SubSeq(w, 1, i), SubSeq(w, i + 1, j), SubSeq(w, j + 1, Len(w))>>
                          : j \in i..Len(w)} : i \in 0..Len(w)} : w \in W}

InitPath ==
  /\ given = [endpoint |-> <<>>, c |-> "nil"]
  /\ client = NewClient(<<>>, "nil")
  /\ ctx = "background" /\ rctx = "none" /\ calls = <<>>
  /\ ncalls = 1
  /\ pc = "called"
  /\ \E n \in 1..3 :
       \E a \in IdTuples(n) :
          /\ args = a
          /\ \E m \in {k \in GetMethods \union {"GetPackageV0"} : Arity(k) = n} : method = m
  /\ qopts = NilOptions
  /\ path = <<>> /\ url = <<>> /\ accept = FALSE /\ req = NoReq /\ wire = <<>>
  /\ resp = NoResp /\ closed = 0 /\ out = NoOut /\ ferr = NoErr
  /\ result = NilResult /\ err = NoErr
  /\ ain = NoArgs /\ aout = NoAddOptions

NextPath ==
  \/ GetPackage \/ GetVersion \/ GetDependencies \/ GetRequirements
  \/ GetProject \/ GetProjectPackageVersions \/ GetAdvisory
  \/ GetPackageV0

SpecPath == InitPath /\ [][NextPath]_vars

(***************************************************************************)
(* addOptions on its own: one call, with the input string drawn from all   *)
(* short strings over UrlChars and the options from the two options        *)
(* structs of the repository.                                              *)
(***************************************************************************)
UrlChars == {"x", "/", "?", "#", " ", "%"}

\* the inputs of TestAddOptions that are longer than MaxUrlLen
TestInputs == {<<"/", "a", "/", "b", "/", "c">>}

UrlInputs == SeqsUpTo(UrlChars, MaxUrlLen) \union TestInputs

\* each field is empty or holds a value of the kind the field is for
FieldInputs(type) ==
  IF type = "Options"
  THEN {<<h, s, v>> : h \in {<<>>, HashValue}, s \in {<<>>, <<"npm">>}, v \in {<<>>, <<"18.2.0">>}}
  ELSE {<<t, h, s, n, v>> : t \in {<<>>, <<"SHA1">>}, h \in {<<>>, HashValue},
                            s \in {<<>>, <<"npm">>}, n \in {<<>>, <<"react">>},
                            v \in {<<>>, <<"18.2.0">>}}

OptionInputs ==
  {StructOptions("Options", v) : v \in FieldInputs("Options")}
    \union {StructOptions("QueryOptions", v) : v \in FieldInputs("QueryOptions")}
    \union {NilOptions, NotAStruct}

InitOpts ==
  /\ given = [endpoint |-> <<>>, c |-> "nil"]
  /\ client = NewClient(<<>>, "nil")
  /\ ctx = "background" /\ rctx = "none" /\ calls = <<>>
  /\ ncalls = 0
  /\ pc = "addOptions"
  /\ method = "none" /\ args = <<>> /\ qopts = NilOptions
  /\ path = <<>> /\ url = <<>> /\ accept = FALSE /\ req = NoReq /\ wire = <<>>
  /\ resp = NoResp /\ closed = 0 /\ out = NoOut /\ ferr = NoErr
  /\ result = NilResult /\ err = NoErr
  /\ \E i \in UrlInputs, o \in OptionInputs : ain = [s |-> i, opts |-> o]
  /\ aout = NoAddOptions

\* got, err := addOptions(c.u, &c.opts)
AddOptions ==
  /\ pc = "addOptions"
  /\ aout' = addOptions(ain.s, ain.opts)
  /\ pc' = "done"
  /\ UNCHANGED <<client, ncalls, callVars, ain, given, calls>>

NextOpts == AddOptions

SpecOpts == InitOpts /\ [][NextOpts]_vars

(***************************************************************************)
(* Concurrent callers: each caller makes one call through the same Client, *)
(* and the statements of the calls interleave.  The locals of a call (url, *)
(* req, resp, err, p) live in its own stack frame, calls[i]; the Client is  *)
(* shared.                                                                 *)
(***************************************************************************)
Callers == {1, 2}

ConcMethods == {"GetPackageV0", "GetProject"}

ConcResponses ==
  {[StatusCode |-> 200, Body |-> "json", readFails |-> FALSE],
   [StatusCode |-> 200, Body |-> "text", readFails |-> FALSE],
   [StatusCode |-> 404, Body |-> "text", readFails |-> FALSE],
   [StatusCode |-> 500, Body |-> "empty", readFails |-> TRUE]}

\* the locals of a call that has not started
IdleCall ==
  [pc |-> "idle", method |-> "none", args |-> <<>>, path |-> <<>>, url |-> <<>>,
   accept |-> FALSE, req |-> NoReq, resp |-> NoResp, ferr |-> NoErr, out |-> NoOut,
   result |-> NilResult, err |-> NoErr]

\* the variables of the sequential calls, not used by concurrent callers
seqVars ==
  <<ncalls, pc, method, args, qopts, path, url, accept, req, resp, closed, out, ferr,
    result, err, ain, aout, ctx, rctx>>

\* the locals of the call of caller i
Local(i) == calls[i]

\* the URL string kept in one place for all callers, as a field of the Client
\* would be
urlShared(i) == calls[1].url

\* the URL string the call of caller i hands to http.NewRequest: its local url
urlOf(i) == Local(i).url

\* a step of caller i that leaves its locals as l and touches nothing else
Store(i, l) ==
  /\ calls' = [calls EXCEPT ![i] = l]
  /\ UNCHANGED <<client, given, seqVars>>

CallInvoke(i) ==
  /\ Local(i).pc = "idle"
  /\ \E m \in ConcMethods :
       \E a \in [1..Arity(m) -> CallIdents] :
          Store(i, [IdleCall EXCEPT !.pc = "called", !.method = m, !.args = a])
  /\ UNCHANGED wire

\* path := fmt.Sprintf(...) of an api.go method
CallPath(i) ==
  /\ Local(i).pc = "called"
  /\ Local(i).method \in GetMethods
  /\ Store(i, [Local(i) EXCEPT !.path = BuildPath(Local(i).method, Local(i).args), !.pc = "get"])
  /\ UNCHANGED wire

\* url := c.BasePath + ... of the inline GetPackage
CallGetPackageV0(i) ==
  /\ Local(i).pc = "called"
  /\ Local(i).method = "GetPackageV0"
  /\ Store(i, [Local(i) EXCEPT !.url = GetPackageURL(client.BasePath, Local(i).args),
                               !.accept = FALSE, !.pc = "newreq"])
  /\ UNCHANGED wire

\* get(ctx, path, v)
CallGet(i) ==
  /\ Local(i).pc = "get"
  /\ Store(i, [Local(i) EXCEPT !.url = client.BasePath \o <<"/">> \o Local(i).path,
                               !.accept = TRUE, !.pc = "newreq"])
  /\ UNCHANGED wire

CallNewRequest(i) ==
  /\ Local(i).pc = "newreq"
  /\ \E u \in {Parse(urlOf(i))} :
       IF u.ok
       THEN Store(i, [Local(i) EXCEPT
                        !.req = [method |-> "GET", url |-> String(u),
                                 header |-> IF Local(i).accept
                                            THEN {"Accept: application/json; charset=utf-8"}
                                            ELSE {},
                                 ctx |-> "background"],
                        !.pc = "do"])
       ELSE Store(i, [Local(i) EXCEPT !.ferr = [kind |-> "NewRequest", msg |-> <<"parse">>],
                                      !.pc = "fetched"])
  /\ UNCHANGED wire

CallDoFails(i) ==
  /\ Local(i).pc = "do"
  /\ wire' = Append(wire, Local(i).req)
  /\ \E e \in TransportErrors :
       Store(i, [Local(i) EXCEPT !.ferr = [kind |-> "transport", msg |-> <<e>>], !.pc = "fetched"])

CallDo(i) ==
  /\ Local(i).pc = "do"
  /\ wire' = Append(wire, Local(i).req)
  /\ \E r \in ConcResponses : Store(i, [Local(i) EXCEPT !.resp = r, !.pc = "resp"])

CallCheckStatus(i) ==
  /\ Local(i).pc = "resp"
  /\ ~IsSuccess(Local(i).resp)
  /\ Store(i, [Local(i) EXCEPT !.ferr = StatusError(Local(i).resp), !.pc = "fetched"])
  /\ UNCHANGED wire

CallDecode(i) ==
  /\ Local(i).pc = "resp"
  /\ IsSuccess(Local(i).resp)
  /\ IF DecodeOK(Local(i).resp)
     THEN Store(i, [Local(i) EXCEPT !.out = [set |-> TRUE, val |-> Decoded(Local(i).resp.Body)],
                                    !.pc = "fetched"])
     ELSE Store(i, [Local(i) EXCEPT !.ferr = DecodeError(Local(i).resp), !.pc = "fetched"])
  /\ UNCHANGED wire

CallReturn(i) ==
  /\ Local(i).pc = "fetched"
  /\ Store(i, [Local(i) EXCEPT !.result = Returned(Local(i).ferr, Local(i).out).result,
                               !.err = Returned(Local(i).ferr, Local(i).out).err,
                               !.pc = "returned"])
  /\ UNCHANGED wire

InitConc ==
  /\ \E e \in Endpoints, c \in Transports :
       /\ given = [endpoint |-> e, c |-> c]
       /\ client = NewClient(e, c)
  /\ calls = [i \in Callers |-> IdleCall]
  /\ ncalls = 0
  /\ pc = "concurrent"
  /\ method = "none" /\ args = <<>> /\ qopts = NilOptions
  /\ path = <<>> /\ url = <<>> /\ accept = FALSE /\ req = NoReq /\ wire = <<>>
  /\ resp = NoResp /\ closed = 0 /\ out = NoOut /\ ferr = NoErr
  /\ result = NilResult /\ err = NoErr
  /\ ain = NoArgs /\ aout = NoAddOptions
  /\ ctx = "background" /\ rctx = "none"

NextConc ==
  \E i \in Callers :
     \/ CallInvoke(i)
     \/ CallPath(i)
     \/ CallGetPackageV0(i)
     \/ CallGet(i)
     \/ CallNewRequest(i)
     \/ CallDoFails(i)
     \/ CallDo(i)
     \/ CallCheckStatus(i)
     \/ CallDecode(i)
     \/ CallReturn(i)

SpecConc == InitConc /\ [][NextConc]_vars

(***************************************************************************)
(* Decoding a dependency graph: GetDependencies has received a 200         *)
(* response whose body is a JSON object with a list of nodes and a list of *)
(* edges, and decodes it into a Dependencies struct.                       *)
(***************************************************************************)
MaxNodes == 3

MaxEdges == 2

\* the JSON objects of the nodes
NodeObjects ==
  {[name |-> "react", relation |-> "SELF"],
   [name |-> "js-tokens", relation |-> "INDIRECT"]}

\* the JSON objects of the edges; the key "fromNode" may be left out
EdgeObjects ==
  {[hasFrom |-> TRUE, fromNode |-> f, toNode |-> t] : f \in {0, 2, 3}, t \in {1, 2}}
    \union {[hasFrom |-> FALSE, fromNode |-> 0, toNode |-> t] : t \in {1, 2}}

Payloads ==
  [nodes : SeqsUpTo(NodeObjects, MaxNodes), edges : SeqsUpTo(EdgeObjects, MaxEdges)]

\* a JSON node object decoded into a Node
DecodeNode(o) ==
  [VersionKey |-> [System |-> "NPM", Name |-> o.name], Bundled |-> FALSE,
   Relation |-> o.relation]

\* a JSON edge object decoded into an Edge: a key that is left out leaves the
\* field at zero
DecodeEdge(o) ==
  [FromNode |-> IF o.hasFrom THEN o.fromNode ELSE 0, ToNode |-> o.toNode]

\* the edges never decoded, as with a field the JSON key does not match
UnmarshalNodesOnly(body) ==
  [Nodes |-> [i \in 1..Len(body.nodes) |-> DecodeNode(body.nodes[i])],
   Edges |-> <<>>]

\* the body decoded into a Dependencies struct: each JSON array becomes a
\* slice with one element for each element of the array, in the same order
UnmarshalDependencies(body) ==
  [Nodes |-> [i \in 1..Len(body.nodes) |-> DecodeNode(body.nodes[i])],
   Edges |-> [i \in 1..Len(body.edges) |-> DecodeEdge(body.edges[i])]]

InitDeps ==
  /\ given = [endpoint |-> <<>>, c |-> "nil"]
  /\ client = NewClient(<<>>, "nil")
  /\ ncalls = 1
  /\ pc = "resp"
  /\ method = "GetDependencies"
  /\ args = <<<<"npm">>, <<"react">>, <<"18.2.0">>>>
  /\ qopts = NilOptions
  /\ path = BuildPath("GetDependencies", args)
  /\ url = client.BasePath \o <<"/">> \o path
  /\ accept = TRUE
  /\ req = [method |-> "GET", url |-> url,
            header |-> {"Accept: application/json; charset=utf-8"}, ctx |-> "caller"]
  /\ wire = <<req>>
  /\ \E p \in Payloads : resp = [StatusCode |-> StatusOK, Body |-> p, readFails |-> FALSE]
  /\ closed = 0 /\ out = NoOut /\ ferr = NoErr
  /\ result = NilResult /\ err = NoErr
  /\ ain = NoArgs /\ aout = NoAddOptions
  /\ ctx = "live" /\ rctx = "caller" /\ calls = <<>>

\* d := new(Dependencies); the body of the 200 response is decoded into d
DecodeDependencies ==
  /\ pc = "resp"
  /\ method = "GetDependencies"
  /\ IsSuccess(resp)
  /\ out' = [set |-> TRUE, val |-> UnmarshalDependencies(resp.Body)]
  /\ closed' = deferClose(closed, resp)
  /\ pc' = "fetched"
  /\ UNCHANGED <<client, ncalls, method, args, qopts, path, url, accept, req, wire, resp,
                 ferr, result, err, ain, aout, given, ctx, rctx, calls>>

NextDeps == DecodeDependencies \/ Return

SpecDeps == InitDeps /\ [][NextDeps]_vars

(***************************************************************************)
(* Properties of the fetch steps.                                          *)
(***************************************************************************)
\* a response has been received and dealt with
Answered == pc \in {"fetched", "returned"} /\ resp # NoResp

\* the query part of a URL string: what lies between the first "?" and "#"
QueryOf(s) == Cut(Cut(s, "#").before, "?").after

\* C1: a call succeeds only when the response status is exactly 200: for any
\* other status (201, 301, 404, 500) the fetch ends in the status error, the
\* body is not decoded into the result, and the call returns that error with
\* a nil result.
C1_OnlyStatus200Succeeds ==
  (Answered /\ resp.StatusCode # 200) =>
     /\ ferr.kind = "status"
     /\ ~out.set
     /\ pc = "returned" => (err.kind = "status" /\ result.isNil)

C1_Witness ==
  /\ pc = "returned" /\ resp.StatusCode = 201 /\ resp.Body = "json" /\ ~resp.readFails
  /\ err.kind = "status"

\* C2: every endpoint method returns exactly one of a non-nil result and a
\* non-nil error, on every path.
C2_ResultXorError ==
  pc = "returned" => (result.isNil <=> err.kind # "nil")

C2_Witness ==
  /\ pc = "returned" /\ method = "Query" /\ err.kind = "decode" /\ result.isNil

\* C3 as stated: every endpoint call that has returned handed exactly one
\* request to the transport.
C3_ExactlyOneRequest ==
  pc = "returned" => Len(wire) = 1

\* C3 amended: a call never issues more than one request; it issues exactly
\* one unless building the request fails, and then none; a call returns
\* without error only after a 200 response whose body decodes, and the error
\* of the fetch is the error returned.
C3_AtMostOneRequest ==
  /\ Len(wire) <= 1
  /\ pc = "returned" =>
       /\ Len(wire) = (IF err.kind \in {"NewRequest", "addOptions"} THEN 0 ELSE 1)
       /\ err = ferr
       /\ err.kind = "nil" <=> (resp.StatusCode = 200 /\ DecodeOK(resp))

C3_Witness ==
  /\ pc = "returned" /\ err.kind = "status" /\ resp.StatusCode = 500 /\ Len(wire) = 1

C7_BodyVerbatim ==
  (pc = "returned" /\ resp # NoResp /\ resp.StatusCode # 200) =>
     err.msg = (IF resp.readFails THEN Status(resp.StatusCode) ELSE <<resp.Body>>)

C7_Witness ==
  /\ pc = "returned" /\ resp.StatusCode = 404 /\ resp.Body = "json" /\ resp.readFails
  /\ err.msg = Status(404)

(***************************************************************************)
(* Properties of path building.                                            *)
(***************************************************************************)
\* the number of "/" in the identifiers of the call
RECURSIVE SlashesIn(_)
SlashesIn(a) == IF a = <<>> THEN 0 ELSE Count(Head(a), "/") + SlashesIn(Tail(a))

\* the path templates as the interface of the service lists them
Template(m) ==
  CASE m = "GetPackage" -> <<"systems", "/", "%s", "/", "packages", "/", "%s">>
    [] m = "GetVersion" ->
         <<"systems", "/", "%s", "/", "packages", "/", "%s", "/", "versions", "/", "%s">>
    [] m = "GetDependencies" ->
         <<"systems", "/", "%s", "/", "packages", "/", "%s", "/", "versions", "/", "%s",
           ":", "dependencies">>
    [] m = "GetRequirements" ->
         <<"systems", "/", "%s", "/", "packages", "/", "%s", "/", "versions", "/", "%s",
           ":", "requirements">>
    [] m = "GetProject" -> <<"projects", "/", "%s">>
    [] m = "GetProjectPackageVersions" -> <<"projects", "/", "%s", ":", "packageversions">>
    [] m = "GetAdvisory" -> <<"advisories", "/", "%s">>

\* C4: whatever the identifiers, the path a method builds has as many
\* "/"-separated segments as the method's format string, and every "/" of an
\* identifier is in the path as %2F.
C4_IdentifiersAddNoSegment ==
  /\ pc = "get" =>
       /\ Len(Split(path, "/")) = Len(Split(Format(method), "/"))
       /\ Count(path, "%2F") = SlashesIn(args)
  /\ (pc = "newreq" /\ method = "GetPackageV0") =>
       /\ Len(Split(url, "/")) = Len(Split(client.BasePath, "/")) + 4
       /\ Count(url, "%2F") = SlashesIn(args)

C4_Witness ==
  /\ pc = "get" /\ method = "GetVersion" /\ args = <<<<>>, <<"x", "/", "x">>, <<>>>>
  /\ path = <<"systems", "/", "/", "packages", "/", "x", "%2F", "x", "/", "versions", "/">>

\* C5: for every method and all identifiers, the path requested is the
\* method's template with each placeholder replaced by the escaped identifier.
C5_PathIsTemplate ==
  pc = "get" => path = Sprintf(Template(method), EscapeAll(args))

(***************************************************************************)
(* Properties of addOptions.                                               *)
(***************************************************************************)
\* the key of field i is followed by "=" and then by nothing
BareKey(s, k) ==
  \E j \in 1..Len(s) :
     /\ s[j] = k
     /\ j < Len(s) /\ s[j + 1] = "="
     /\ (j + 1 = Len(s) \/ s[j + 2] \in {"&", "#"})

AllZero(opts) == opts.kind = "struct" /\ \A i \in 1..Len(opts.vals) : opts.vals[i] = <<>>

\* C8: the query string addOptions writes contains the key of a field exactly
\* when the field is not the empty string, and never a bare "key=".
C8_ZeroFieldsOmitted ==
  (pc = "done" /\ aout.err = "nil" /\ ain.opts.kind = "struct") =>
     \A i \in 1..Len(ain.opts.vals) :
        LET k == Fields(ain.opts.type)[i].key IN
        /\ Contains(QueryOf(aout.s), k) <=> ain.opts.vals[i] # <<>>
        /\ ~BareKey(aout.s, k)

C8_Witness ==
  /\ pc = "done" /\ aout.err = "nil"
  /\ ain.opts = StructOptions("Options", <<<<>>, <<"npm">>, <<>>>>)
  /\ ain.s = <<"/", "x">>
  /\ aout.s = <<"/", "x", "?", "system", "=", "npm">>

\* C9 as stated: with all-zero options every input that parses as a URL comes
\* back unchanged, without a trailing "?" and without error.
C9_ZeroOptionsIdentity ==
  (pc = "done" /\ AllZero(ain.opts) /\ Parse(ain.s).ok) =>
     /\ aout.err = "nil"
     /\ aout.s = ain.s
     /\ ~HasSuffix(aout.s, <<"?">>)

\* the input is a path of unreserved characters and "/" separators: it has no
\* query, no fragment and no character that needs escaping, and it is not the
\* bare authority marker "//"
PlainPath(s) ==
  /\ \A i \in 1..Len(s) : s[i] = "/" \/ IsUnreserved(s[i])
  /\ s # <<"/", "/">>

\* C9 amended: with all-zero options every input that is a plain path comes
\* back unchanged, without a trailing "?" and without error.
C9_ZeroOptionsPlainPath ==
  (pc = "done" /\ AllZero(ain.opts) /\ PlainPath(ain.s)) =>
     /\ aout.err = "nil"
     /\ aout.s = ain.s
     /\ ~HasSuffix(aout.s, <<"?">>)

C9_Witness ==
  /\ pc = "done" /\ AllZero(ain.opts) /\ ain.s = <<"/", "x", "/">> /\ aout.s = <<"/", "x", "/">>

\* the positions in s of the keys of the options struct
KeyPositions(s, type) ==
  {j \in 1..Len(s) : \E i \in 1..Len(Fields(type)) : s[j] = Fields(type)[i].key}

\* the number of c in the values of the options
RECURSIVE CountIn(_, _)
CountIn(vals, c) == IF vals = <<>> THEN 0 ELSE Count(Head(vals), c) + CountIn(Tail(vals), c)

\* C10: the parameters are written in ascending key order whatever the order
\* of the fields in the struct, each as key "=" value; a "=" is in the query
\* only after a key and a "/" never, the "/" and "=" of the values being
\* written %2F and %3D; the input of TestAddOptions gives the string the
\* test expects.
C10_SortedAndEscaped ==
  (pc = "done" /\ aout.err = "nil" /\ ain.opts.kind = "struct") =>
     LET q == QueryOf(aout.s) IN
     /\ \A i, j \in KeyPositions(q, ain.opts.type) : i < j => KeyRank(q[i]) < KeyRank(q[j])
     /\ \A j \in 1..Len(q) : q[j] = "=" => j - 1 \in KeyPositions(q, ain.opts.type)
     /\ ~Contains(q, "/")
     /\ Count(q, "%2F") = CountIn(ain.opts.vals, "/")
     /\ Count(q, "%3D") = CountIn(ain.opts.vals, "=")
     /\ (ain.s = <<"/", "a", "/", "b", "/", "c">>
           /\ ain.opts = StructOptions("Options", <<HashValue, <<"npm">>, <<"18.2.0">>>>)) =>
          aout.s = <<"/", "a", "/", "b", "/", "c", "?",
                     "hash", "=", "ulXBPXrC", "%2F", "UTfnMgHRFVxmjPzdbk", "%3D", "&",
                     "system", "=", "npm", "&", "version", "=", "18.2.0">>

C10_Witness ==
  /\ pc = "done" /\ aout.err = "nil"
  /\ ain.opts = StructOptions("QueryOptions", <<<<>>, HashValue, <<"npm">>, <<"react">>, <<>>>>)
  /\ QueryOf(aout.s) = <<"hash.value", "=", "ulXBPXrC", "%2F", "UTfnMgHRFVxmjPzdbk", "%3D", "&",
                         "versionKey.name", "=", "react", "&", "versionKey.system", "=", "npm">>

\* C11: when addOptions fails, because the input does not parse as a URL or
\* because the options are no struct, it returns the error together with the
\* input string exactly as it was given, nothing appended.
C11_FailureReturnsInput ==
  (pc = "done" /\ (~Parse(ain.s).ok \/ ValuesFails(ain.opts))) =>
     /\ aout.err # "nil"
     /\ aout.s = ain.s

C11_Witness ==
  /\ pc = "done"
  /\ ain.s = <<"/", "x", "%">> /\ ain.opts.kind = "struct" /\ ~AllZero(ain.opts)
  /\ aout.err = "parse" /\ aout.s = <<"/", "x", "%">>

(***************************************************************************)
(* Properties of Query.                                                    *)
(***************************************************************************)
\* the parameter k=v stands in the query q, between separators
HasParam(q, k, v) ==
  \E j \in 1..Len(q) :
     /\ q[j] = k
     /\ (j = 1 \/ q[j - 1] = "&")
     /\ j + 1 + Len(v) <= Len(q)
     /\ q[j + 1] = "="
     /\ SubSeq(q, j + 2, j + 1 + Len(v)) = v
     /\ (j + 1 + Len(v) = Len(q) \/ q[j + 2 + Len(v)] = "&")

\* C12: the request Query builds goes to the fixed path "query" under the
\* base URL, whatever the filters are; each QueryOptions field that is not
\* empty stands in the query string under its key (hash.type, hash.value,
\* versionKey.system, versionKey.name, versionKey.version) with its escaped
\* value, and the key of an empty field is not in the request at all.
C12_QueryFiltersAsParameters ==
  (method = "Query" /\ req # NoReq) =>
     LET q == QueryOf(req.url)
         fs == Fields("QueryOptions")
     IN /\ Cut(path, "?").before = <<"query">>
        /\ QueryOf(path) = q
        /\ Cut(req.url, "?").before = client.BasePath \o <<"/", "query">>
        /\ qopts.kind = "nil" => q = <<>>
        /\ qopts.kind = "struct" =>
             \A i \in 1..Len(fs) :
                IF qopts.vals[i] = <<>> THEN ~Contains(req.url, fs[i].key)
                ELSE HasParam(q, fs[i].key, QueryEscape(qopts.vals[i]))

C12_Witness ==
  /\ method = "Query" /\ pc = "returned" /\ ~result.isNil
  /\ qopts = StructOptions("QueryOptions", <<<<>>, <<>>, <<"npm">>, <<"react">>, <<"18.2.0">>>>)
  /\ Len(wire) = 1
  /\ wire[1].url = basePath \o <<"/", "query", "?", "versionKey.name", "=", "react", "&",
                                 "versionKey.system", "=", "npm", "&",
                                 "versionKey.version", "=", "18.2.0">>

\* building the URL of the Query request fails: addOptions fails, or the
\* base URL followed by the path does not parse
QueryURLFails ==
  \E r \in {addOptions(<<"query">>, qopts)} :
     r.err # "nil" \/ ~Parse(client.BasePath \o <<"/">> \o r.s).ok

\* C13: when building the URL of the Query request fails, no request is ever
\* handed to the transport and no response is received, and Query returns
\* the error of the failed step with a nil result.
C13_QueryBuildFailureNoRequest ==
  (method = "Query" /\ QueryURLFails) =>
     /\ wire = <<>> /\ req = NoReq /\ resp = NoResp
     /\ pc \notin {"do", "resp"}
     /\ pc = "returned" =>
          /\ result.isNil
          /\ err.kind \in {"addOptions", "NewRequest"}

C13_Witness ==
  /\ method = "Query" /\ pc = "returned"
  /\ given.endpoint = <<"http", ":", "/", "/", "local", " ", "host">>
  /\ qopts.kind = "struct" /\ ~AllZero(qopts)
  /\ err.kind = "NewRequest" /\ result.isNil /\ wire = <<>>

(***************************************************************************)
(* Properties of the constructor.                                          *)
(***************************************************************************)
\* C14: the client NewClient returned has the default service root
\* https://api.deps.dev/v3 as its base URL when the endpoint argument was
\* empty and the endpoint given otherwise, and the default HTTP client as its
\* transport when the transport argument was nil and the transport given
\* otherwise; neither is ever missing, and until the first endpoint call
\* nothing has been handed to the transport.
C14_NewClientDefaults ==
  /\ given.endpoint = <<>> => client.BasePath = <<"https", ":", "/", "/", "api.deps.dev", "/", "v3">>
  /\ given.endpoint # <<>> => client.BasePath = given.endpoint
  /\ given.c = "nil" => client.client = "http.DefaultClient"
  /\ given.c # "nil" => client.client = given.c
  /\ client.BasePath # <<>> /\ client.client # "nil"
  /\ ncalls = 0 => (wire = <<>> /\ req = NoReq /\ resp = NoResp)

C14_Witness ==
  /\ given = [endpoint |-> <<>>, c |-> "nil"]
  /\ client = [BasePath |-> basePath, client |-> "http.DefaultClient"]
  /\ pc = "returned" /\ method = "GetPackageV0" /\ ~result.isNil
  /\ Len(wire) = 1 /\ HasPrefix(wire[1].url, basePath)

(***************************************************************************)
(* Properties of the request.                                              *)
(***************************************************************************)
\* C15: every request handed to the transport, by whichever endpoint method,
\* has the method GET and carries the header
\* Accept: application/json; charset=utf-8.
C15_GetWithAcceptHeader ==
  \A i \in 1..Len(wire) :
     /\ wire[i].method = "GET"
     /\ "Accept: application/json; charset=utf-8" \in wire[i].header

(***************************************************************************)
(* Properties of decoding.                                                 *)
(***************************************************************************)
\* C16: a 200 response whose body is anything but one JSON value of the
\* expected shape (another type, plain text, nothing, or a JSON value with
\* text after it) ends in the decode error, which is not the status error,
\* and the call returns it with a nil result.
C16_BadBodyIsDecodeError ==
  (Answered /\ resp.StatusCode = 200 /\ resp.Body # "json") =>
     /\ ferr.kind = "decode"
     /\ pc = "returned" => (result.isNil /\ err.kind = "decode")

(***************************************************************************)
(* Properties of transport failures and of cancellation.                   *)
(***************************************************************************)
\* the request was handed to the transport and no response came back
NoResponse == pc \in {"fetched", "returned"} /\ Len(wire) = 1 /\ resp = NoResp

\* C17: when the transport obtains no response, the fetch ends in the
\* transport's error and goes no further: no status is checked, no body is
\* read, closed or decoded; the call returns that very error, which is not
\* an error of the status kind, and a nil result.
C17_TransportErrorUnchanged ==
  NoResponse =>
     /\ ferr.kind = "transport"
     /\ \E e \in TransportErrors \union {Canceled} : ferr.msg = <<e>>
     /\ closed = 0 /\ out = NoOut
     /\ pc = "returned" => (err = ferr /\ result.isNil)

C17_Witness ==
  /\ pc = "returned" /\ method = "GetPackageV0"
  /\ Len(wire) = 1 /\ resp = NoResp
  /\ err = [kind |-> "transport", msg |-> <<"connection refused">>]
  /\ result.isNil

\* the endpoint methods that take a context
TakesContext(m) == m \in GetMethods \union {"Query"}

\* the call's context is cancelled and no response has come: the call is
\* still building its request or waiting in the network call
CanceledBeforeResponse ==
  /\ TakesContext(method)
  /\ ctx = "canceled"
  /\ pc \in {"called", "get", "newreq", "do"}
  /\ Parse(client.BasePath).ok

\* the call has returned the cancellation error and a nil result
ReturnedCanceled ==
  /\ pc = "returned"
  /\ err = [kind |-> "transport", msg |-> <<Canceled>>]
  /\ result.isNil
  /\ resp = NoResp

OwnURL(l) ==
  IF l.method = "GetPackageV0" THEN GetPackageURL(client.BasePath, l.args)
  ELSE client.BasePath \o <<"/">> \o BuildPath(l.method, l.args)

\* the error of the fetch for the response r alone
OwnError(r) ==
  IF ~IsSuccess(r) THEN StatusError(r)
  ELSE IF DecodeOK(r) THEN NoErr
  ELSE DecodeError(r)

\* the call with the locals l asked for its own URL and returned what its own
\* response gives
OwnOutcome(l) ==
  /\ l.pc \in {"newreq", "do", "resp", "fetched", "returned"} => l.url = OwnURL(l)
  /\ l.req # NoReq => l.req.url = String(Parse(OwnURL(l)))
  /\ l.pc = "returned" =>
       IF ~Parse(OwnURL(l)).ok THEN l.result.isNil /\ l.err.kind = "NewRequest"
       ELSE IF l.resp = NoResp
            THEN l.result.isNil /\ l.err.kind = "transport" /\ l.err.msg # <<>>
            ELSE /\ l.err = OwnError(l.resp)
                 /\ l.result = (IF OwnError(l.resp) = NoErr
                                 THEN [isNil |-> FALSE, val |-> Decoded(l.resp.Body)]
                                 ELSE NilResult)

\* C19: in every interleaving of the calls of concurrent callers, each call
\* asks for the URL its own arguments give and returns the result or error
\* its own response gives, the Client stays as NewClient made it, and every
\* step changes the locals of one call only.
C19_NoInterference ==
  /\ [](\A i \in Callers : OwnOutcome(calls[i]))
  /\ [](client = NewClient(given.endpoint, given.c))
  /\ [][\E i \in Callers : \A j \in Callers \ {i} : calls'[j] = calls[j]]_vars

C19_Witness ==
  /\ calls[1].pc = "returned" /\ ~calls[1].result.isNil
  /\ calls[2].pc = "resp" /\ calls[2].resp.StatusCode = 404
  /\ calls[1].req.url # calls[2].req.url
  /\ wire = <<calls[2].req, calls[1].req>>

(***************************************************************************)
(* Properties of the dependency graph.                                     *)
(***************************************************************************)
\* the node index an edge object gives for its "fromNode"
FromOf(o) == IF o.hasFrom THEN o.fromNode ELSE 0

\* every edge of the payload refers to nodes the payload has
EdgesReferenceNodes(p) ==
  \A i \in 1..Len(p.edges) :
     /\ FromOf(p.edges[i]) \in 0..(Len(p.nodes) - 1)
     /\ p.edges[i].toNode \in 0..(Len(p.nodes) - 1)

C21_RelativePathNoLeadingSlash ==
  pc = "get" => ~HasPrefix(path, <<"/">>)

\* the relative path of the current call: the path handed to get, or for the
\* method that builds its URL inline what follows the base and its "/"
RelativePath ==
  IF method = "GetPackageV0" THEN BuildPath("GetPackage", args) ELSE path

\* C22: the URL of every request handed to the transport is the client's
\* base URL, then "/", then the relative path with its query, so the base's
\* own path prefix (/v3 of the default root) is in it; and exactly one "/"
\* separates the base from the first segment of the relative path.
C22_BaseSlashRelativePath ==
  \A i \in 1..Len(wire) :
     LET u == wire[i].url
         b == client.BasePath
     IN /\ u = b \o <<"/">> \o RelativePath
        /\ HasPrefix(u, b)
        /\ Len(u) >= Len(b) + 2
        /\ u[Len(b) + 1] = "/"
        /\ u[Len(b) + 2] # "/"

(***************************************************************************)
(* Properties of the response body.                                        *)
(***************************************************************************)
\* C23: the body of a response is never closed twice and no body is closed
\* when no response came; once the fetch is over for a response received,
\* by success, decode failure, a status other than 200 or a failure to read
\* the error body, its body has been closed exactly once; and every call
\* that has received a response goes on to return with the body closed.
C23_BodyClosedOnce ==
  /\ [](closed <= 1)
  /\ [](resp = NoResp => closed = 0)
  /\ []((pc \in {"fetched", "returned"} /\ resp # NoResp) => closed = 1)
  /\ ((resp # NoResp) ~> (pc = "returned" /\ closed = 1))

C23_Witness ==
  /\ pc = "returned" /\ method = "GetPackageV0"
  /\ resp.StatusCode = 500 /\ resp.readFails
  /\ err.kind = "status" /\ closed = 1

(***************************************************************************)
(* Properties of the Client's fields.                                      *)
(***************************************************************************)
\* C24: no step of an endpoint call, whatever its outcome, changes the
\* Client's base URL or its transport, so after any sequence of calls the
\* Client is as NewClient made it from its arguments.
C24_ClientNeverChanges ==
  /\ [][client' = client]_vars
  /\ [](client = NewClient(given.endpoint, given.c))

C24_Witness ==
  /\ ncalls = 2 /\ pc = "returned" /\ method = "GetPackageV0"
  /\ err.kind = "status" /\ Len(wire) = 1
  /\ given = [endpoint |-> <<"http", ":", "/", "/", "localhost", ":", "8080">>, c |-> "custom"]
  /\ client = [BasePath |-> <<"http", ":", "/", "/", "localhost", ":", "8080">>, client |-> "custom"]

(***************************************************************************)
(* Properties of the identifiers.                                          *)
(***************************************************************************)
\* longest identifier tuple of the other call, the one whose path is compared
MaxOtherLen == 2

\* every path a method can build, over all identifiers of the other call
PathsOf(m) == {BuildPath(m, a) : a \in IdTuplesUpTo(Arity(m), MaxOtherLen)}

DependenciesPaths == PathsOf("GetDependencies")

RequirementsPaths == PathsOf("GetRequirements")

PackageVersionsPaths == PathsOf("GetProjectPackageVersions")

\* C25: whatever the identifiers, the path GetVersion builds is none of the
\* paths GetDependencies or GetRequirements can build, and the path
\* GetProject builds is none of the paths GetProjectPackageVersions can
\* build.
C25_NoIdentifierRedirects ==
  /\ (pc = "get" /\ method = "GetVersion") =>
       (path \notin DependenciesPaths /\ path \notin RequirementsPaths)
  /\ (pc = "get" /\ method = "GetProject") => path \notin PackageVersionsPaths

(***************************************************************************)
(* One call of every endpoint method with identifiers of every kind: the   *)
(* empty string, a plain word, and strings of the characters URL syntax    *)
(* gives a meaning.  The call is followed from its start to its return.    *)
(***************************************************************************)
ArgIdents == {<<>>, <<"x">>, <<"%", " ">>, <<"?", "#", "/">>}

InitArgs ==
  /\ \E e \in Endpoints :
       /\ given = [endpoint |-> e, c |-> "nil"]
       /\ client = NewClient(e, "nil")
  /\ ctx = "background" /\ rctx = "none" /\ calls = <<>>
  /\ ncalls = 1
  /\ pc = "called"
  /\ \E m \in Methods :
       /\ method = m
       /\ \E a \in [1..Arity(m) -> ArgIdents] : args = a
       /\ IF m = "Query" THEN \E o \in CallOptions : qopts = o ELSE qopts = NilOptions
  /\ path = <<>> /\ url = <<>> /\ accept = FALSE /\ req = NoReq /\ wire = <<>>
  /\ resp = NoResp /\ closed = 0 /\ out = NoOut /\ ferr = NoErr
  /\ result = NilResult /\ err = NoErr
  /\ ain = NoArgs /\ aout = NoAddOptions

NextArgs ==
  \/ GetPackage \/ GetVersion \/ GetDependencies \/ GetRequirements
  \/ GetProject \/ GetProjectPackageVersions \/ GetAdvisory
  \/ Query
  \/ GetPackageV0
  \/ get
  \/ NewRequest
  \/ DoFails
  \/ Do
  \/ CheckStatus
  \/ Decode
  \/ Return

SpecArgs == InitArgs /\ [][NextArgs]_vars

(***************************************************************************)
(* Properties of argument handling.                                        *)
(***************************************************************************)
\* C26 as stated: for every identifier, the empty string included, the
\* method builds its path and hands exactly one request to the transport,
\* and the error it returns is one of the transport, the status or the
\* decode; Query may also return its URL-building error.
C26_AlwaysOneRequest ==
  /\ (pc # "called" /\ method \in GetMethods) => path = BuildPath(method, args)
  /\ (pc = "returned" /\ method # "Query") =>
       /\ Len(wire) = 1
       /\ err.kind \in {"nil", "transport", "status", "decode"}
  /\ (pc = "returned" /\ method = "Query") =>
       \/ err.kind \in {"addOptions", "NewRequest"} /\ Len(wire) = 0
       \/ err.kind \in {"nil", "transport", "status", "decode"} /\ Len(wire) = 1

\* C26 amended: for every identifier, the empty string included, the method
\* builds its path and returns no error of its own; it hands exactly one
\* request to the transport whenever the Client's base URL is well formed,
\* and none, returning the error of http.NewRequest, when it is not,
\* whatever the identifiers are; every other error is one of the transport,
\* the status or the decode.
C26_NoLocalRejection ==
  /\ (pc # "called" /\ method \in GetMethods) => path = BuildPath(method, args)
  /\ pc = "returned" =>
       /\ Len(wire) = (IF Parse(client.BasePath).ok THEN 1 ELSE 0)
       /\ err.kind \in {"nil", "NewRequest", "transport", "status", "decode"}
       /\ err.kind = "NewRequest" <=> ~Parse(client.BasePath).ok

C26_Witness ==
  /\ pc = "returned" /\ method = "GetVersion"
  /\ args = <<<<>>, <<"%", " ">>, <<>>>>
  /\ Len(wire) = 1 /\ ~result.isNil
  /\ wire[1].url = basePath \o <<"/", "systems", "/", "/", "packages", "/", "%25", "%20",
                                 "/", "versions", "/">>

(***************************************************************************)
(* Properties of addOptions on an input that has a query.                  *)
(***************************************************************************)
\* the URL string has a "?" that begins a query
HasQuery(s) == Contains(Cut(s, "#").before, "?")

\* the query of the URL string is a lone "?" with nothing after it
LoneQuery(s) ==
  LET h == Cut(s, "#").before IN HasSuffix(h, <<"?">>) /\ Count(h, "?") = 1

\* C27 as stated: the query of the string addOptions returns is exactly the
\* encoded parameters of the options, whatever query the input had; and
\* with options that give no parameter an input that had a query comes back
\* without one.
C27_QueryAlwaysDropped ==
  (pc = "done" /\ aout.err = "nil") =>
     /\ QueryOf(aout.s) = Encode(Values(ain.opts))
     /\ (Values(ain.opts) = {} /\ HasQuery(ain.s)) => ~HasQuery(aout.s)

\* C27 amended: the query of the string addOptions returns is exactly the
\* encoded parameters of the options, the parameters of the input being
\* dropped; with options that give no parameter an input that had
\* parameters comes back without a query, and the returned string has a "?"
\* only when the query of the input was a lone "?", which is kept.
C27_QueryReplaced ==
  (pc = "done" /\ aout.err = "nil") =>
     /\ QueryOf(aout.s) = Encode(Values(ain.opts))
     /\ (Values(ain.opts) = {} /\ QueryOf(ain.s) # <<>>) => ~HasQuery(aout.s)
     /\ Values(ain.opts) = {} => (HasQuery(aout.s) <=> LoneQuery(ain.s))

C27_Witness ==
  /\ pc = "done" /\ aout.err = "nil"
  /\ ain.s = <<"/", "?", "x">>
  /\ ain.opts = StructOptions("Options", <<<<>>, <<"npm">>, <<>>>>)
  /\ aout.s = <<"/", "?", "system", "=", "npm">>

====
